---- MODULE Spec2Model ----
(***************************************************************************)
(* A model of libtado's asynchronous client (src/libtado/api_async.py):     *)
(* the login coroutine, Home.refresh_auth, Home._api_call, the payload      *)
(* built by Home.set_temperature and the async_cached_property wrapper.     *)
(*                                                                          *)
(* Coroutines run on one asyncio event loop: the code between two awaits    *)
(* is one atomic step, so every action below is the code from one           *)
(* resumption to the next suspension (or to the return / the raise).        *)
(*                                                                          *)
(* Strings built by concatenation are sequences of their fragments          *)
(* ("Bearer " + t is <<"Bearer ", t>>); a Python dict is a function whose   *)
(* DOMAIN is its key set, so a missing key is a key outside the DOMAIN.     *)
(***************************************************************************)
EXTENDS Integers, Sequences, FiniteSets, TLC

VARIABLES
    heap,       \* header dicts by object identity; object 0 is the module's HEADERS
    login,      \* per login() run: its position, its locals, its events so far
    home,       \* the Home objects the login() runs have returned
    rtask,      \* per Home: the refresh_auth() calls
    ctask,      \* per Home: the _api_call() calls
    now,        \* the monotonic clock the TTL caches read, in seconds
    aliveAtExpiry,  \* whether the installed cachetools keeps an entry at now = expires
    zoneObjects,       \* the Zone objects constructed so far, by identity
    cache,      \* the __cache__ attribute of the objects that have one
    atask,      \* the accesses of cached properties
    unawaited   \* coroutine objects created and dropped without being awaited

\* the state of the caching layer and of the Zone objects
cvars == <<now, aliveAtExpiry, zoneObjects, cache, atask, unawaited>>

vars == <<heap, login, home, rtask, ctask, now, aliveAtExpiry, zoneObjects, cache, atask,
          unawaited>>

----------------------------------------------------------------------------
(* Bounds of the model. *)

\* refresh_auth() calls made on one Home (they may overlap)
MaxRefresh == 2
\* _api_call() calls made on one Home (they may overlap with the refreshes)
MaxApiCalls == 1
\* cached-property accesses whose outcome is kept (a slot is reused)
MaxAccess == 1
\* the clock advances in steps of TickStep seconds, up to MaxTime
TickStep == 30
MaxTime == 90
\* Zone objects constructed in one run
MaxZones == 2
\* coroutine objects dropped without being awaited in one run
MaxUnawaited == 1

\* the login() runs (each returns its own Home)
Sessions == {1, 2}

AccessTokens == {"A1", "A2"}
RefreshTokens == {"R1", "R2"}
Usernames == {"user"}
Passwords == {"pass"}
Secrets == {"secret"}
HomeIds == {42, 7}
\* final statuses aiohttp hands to the caller
Statuses == {200, 304, 401}

----------------------------------------------------------------------------
(* Module-level constants of the source. *)

\* HEADERS = {"Referer": "https://my.tado.com/"}
HEADERS == [Referer |-> <<"https://my.tado.com/">>]
API_URL == "https://my.tado.com/api/v2/"
TOKEN_URL == <<"https://auth.tado.com/oauth/token">>
V1_ME_URL == <<"https://my.tado.com/api/v1/me">>
\* the heap identity of the module-level HEADERS dict
HeadersId == 0

\* urljoin(API_URL, cmd) for a relative cmd (a sequence of fragments)
urljoin(base, cmd) == <<base>> \o cmd

\* "Bearer " + token
Bearer(token) == <<"Bearer ", token>>

\* d[k] = v on a dict
SetItem(d, k, v) == [x \in DOMAIN d \cup {k} |-> IF x = k THEN v ELSE d[x]]

\* the empty dict, and "no value"
EmptyDict == <<>>
NoHeaders == EmptyDict

----------------------------------------------------------------------------
(* What the network may answer. *)

\* a transport failure: the await raises aiohttp.ClientError
NetErr == [kind |-> "neterr", status |-> 0, json |-> FALSE, body |-> EmptyDict]

HttpResponses(bodies) ==
    [kind : {"http"}, status : Statuses, json : {TRUE}, body : bodies]
    \cup [kind : {"http"}, status : Statuses, json : {FALSE}, body : {EmptyDict}]

\* JSON objects the OAuth endpoint may send: each token field present or not
TokenBodies ==
    {EmptyDict}
    \cup {[access_token |-> a] : a \in AccessTokens}
    \cup {[refresh_token |-> r] : r \in RefreshTokens}
    \cup {[access_token |-> a, refresh_token |-> r] :
            a \in AccessTokens, r \in RefreshTokens}

TokenResponses == {NetErr} \cup HttpResponses(TokenBodies)

\* JSON objects the v2 "me" endpoint may send
MeBodies ==
    {EmptyDict, [homes |-> <<>>]}
    \cup {[homes |-> <<[id |-> h]>>] : h \in HomeIds}
    \cup {[homes |-> <<[id |-> h], [id |-> g]>>] : h \in HomeIds, g \in HomeIds}

MeResponses == {NetErr} \cup HttpResponses(MeBodies)

\* the legacy endpoint's answer is never read
V1Responses == {NetErr} \cup HttpResponses({EmptyDict})

\* JSON values of the v2 API (opaque to the client)
ApiBodies == {[value |-> "json"]}
ApiResponses == {NetErr} \cup HttpResponses(ApiBodies)

----------------------------------------------------------------------------
(* aiohttp, as the source uses it. *)

\* response.raise_for_status(): raises ClientResponseError for a status of 400
\* or more, does nothing below
RaiseForStatusOff(status) == FALSE
RaiseForStatus(status) == status >= 400

\* an event of a login() run: a request sent (with its headers), a response
\* received (with its status and decoded body), the return
Sent(method, url, headers, data) ==
    [ev |-> "send", method |-> method, url |-> url, headers |-> headers,
     data |-> data, status |-> 0, body |-> EmptyDict]
Received(method, url, resp) ==
    [ev |-> "recv", method |-> method, url |-> url, headers |-> NoHeaders,
     data |-> EmptyDict, status |-> resp.status, body |-> resp.body]
Returned ==
    [ev |-> "return", method |-> "", url |-> <<>>, headers |-> NoHeaders,
     data |-> EmptyDict, status |-> 0, body |-> EmptyDict]

----------------------------------------------------------------------------
(* login(username, password, secret) *)

LoginIdle ==
    [pc |-> "idle", username |-> "", password |-> "", secret |-> "",
     access_token |-> "", refresh_token |-> "", access_headers |-> -1,
     err |-> "none", events |-> <<>>]

\* lines 777-784: the form of the password grant
LoginData(username, password, secret) ==
    [client_id |-> "tado-web-app", client_secret |-> secret,
     grant_type |-> "password", password |-> password,
     scope |-> "home.user", username |-> username]

\* lines 776-788: build the form, open the ClientSession, POST it (no headers)
Login(s, username, password, secret) ==
    /\ login[s].pc = "idle"
    /\ login' = [login EXCEPT ![s] =
            [@ EXCEPT !.pc = "post", !.username = username,
                      !.password = password, !.secret = secret,
                      !.events = Append(@, Sent("POST", TOKEN_URL, NoHeaders,
                                                    LoginData(username, password,
                                                              secret)))]]
    /\ UNCHANGED <<heap, home, rtask, ctask, cvars>>

\* line 793, HEADERS.copy(): the identity of the new dict object of run s
HeadersShared(s) == HeadersId
HeadersCopy(s) == s

\* line 794: the key of the token response the Authorization header is built from
LoginBearerKey == "access_token"

\* line 796: session.get("https://my.tado.com/api/v1/me", headers=access_headers)
LegacyRequestBare(access_headers) == Sent("GET", V1_ME_URL, NoHeaders, EmptyDict)
LegacyRequest(access_headers) == Sent("GET", V1_ME_URL, access_headers, EmptyDict)

\* lines 788-796: the token response arrives; no status check is made
LoginTokenResponse(s, resp) ==
    /\ login[s].pc = "post"
    /\ LET l == login[s]
           got == [l EXCEPT !.events = Append(@, Received("POST", TOKEN_URL, resp))]
           Raise(e) ==
               /\ login' = [login EXCEPT ![s] = [got EXCEPT !.pc = "raised", !.err = e]]
               /\ UNCHANGED heap
       IN  IF resp.kind = "neterr" THEN Raise("ClientError")
           ELSE IF ~resp.json THEN Raise("ContentTypeError")
           ELSE IF "access_token" \notin DOMAIN resp.body THEN Raise("KeyError")
           ELSE IF "refresh_token" \notin DOMAIN resp.body THEN Raise("KeyError")
           ELSE LET id == HeadersCopy(s)
                    copied == IF id \in DOMAIN heap THEN heap
                              ELSE [x \in DOMAIN heap \cup {id} |->
                                        IF x = id THEN heap[HeadersId] ELSE heap[x]]
                    hp == [copied EXCEPT ![id] =
                              SetItem(@, "Authorization",
                                      Bearer(resp.body[LoginBearerKey]))]
                IN  /\ heap' = hp
                    /\ login' = [login EXCEPT ![s] =
                          [got EXCEPT !.pc = "v1",
                                      !.access_token = resp.body["access_token"],
                                      !.refresh_token = resp.body["refresh_token"],
                                      !.access_headers = id,
                                      !.events = Append(@, LegacyRequest(hp[id]))]]
    /\ UNCHANGED <<home, rtask, ctask, cvars>>

\* lines 796-799: the legacy response arrives and is dropped; GET the v2 "me"
LoginV1Response(s, resp) ==
    /\ login[s].pc = "v1"
    /\ LET l == login[s]
           hdrs == heap[l.access_headers]
       IN  IF resp.kind = "neterr"
           THEN login' = [login EXCEPT ![s] =
                            [l EXCEPT !.pc = "raised", !.err = "ClientError"]]
           ELSE login' = [login EXCEPT ![s] =
                    [l EXCEPT !.pc = "me",
                              !.events = @ \o <<Received("GET", V1_ME_URL, resp),
                                                Sent("GET", urljoin(API_URL, <<"me">>),
                                                     hdrs, EmptyDict)>>]]
    /\ UNCHANGED <<heap, home, rtask, ctask, cvars>>

\* line 806: me["homes"][0]["id"]
FirstHomeLast(me) == me["homes"][Len(me["homes"])]["id"]
FirstHome(me) == me["homes"][1]["id"]

\* lines 803-811: Home(...) as login() constructs it (lines 82-102)
NewHome(l, home_id) ==
    [username |-> l.username, secret |-> l.secret, id |-> home_id,
     access_token |-> l.access_token, refresh_token |-> l.refresh_token,
     access_headers |-> l.access_headers, temperature_unit |-> "celsius"]

\* lines 798-811: the "me" response arrives; return the Home
LoginMeResponse(s, resp) ==
    /\ login[s].pc = "me"
    /\ LET l == login[s]
           got == [l EXCEPT !.events = Append(@, Received("GET",
                                                    urljoin(API_URL, <<"me">>), resp))]
           Raise(e) ==
               /\ login' = [login EXCEPT ![s] = [got EXCEPT !.pc = "raised", !.err = e]]
               /\ UNCHANGED home
       IN  IF resp.kind = "neterr" THEN Raise("ClientError")
           ELSE IF ~resp.json THEN Raise("ContentTypeError")
           ELSE IF "homes" \notin DOMAIN resp.body THEN Raise("KeyError")
           ELSE IF Len(resp.body["homes"]) = 0 THEN Raise("IndexError")
           ELSE /\ login' = [login EXCEPT ![s] =
                      [got EXCEPT !.pc = "done",
                                  !.events = Append(@, Returned)]]
                /\ home' = [x \in DOMAIN home \cup {s} |->
                              IF x = s THEN NewHome(l, FirstHome(resp.body))
                              ELSE home[x]]
    /\ UNCHANGED <<heap, rtask, ctask, cvars>>

----------------------------------------------------------------------------
(* Home.refresh_auth() *)

\* a call of a coroutine of a Home: its position, the request it has in flight
\* (dropped with its frame when it ends), the requests it has sent so far, and how
\* it ended
TaskIdle ==
    [pc |-> "idle", method |-> "", url |-> <<>>, data |-> EmptyDict,
     headers |-> NoHeaders, sent |-> 0, err |-> "none", result |-> EmptyDict]

\* the frame of a call that has ended
Ended(task, err, result) ==
    [TaskIdle EXCEPT !.pc = IF err = "none" THEN "done" ELSE "raised",
                     !.sent = task.sent, !.err = err, !.result = result]

\* lines 131-137: the form of the refresh grant, read from the Home at call time
RefreshData(h) ==
    [client_id |-> "tado-web-app", client_secret |-> h.secret,
     grant_type |-> "refresh_token", refresh_token |-> h.refresh_token,
     scope |-> "home.user"]

\* lines 130-141: build the form and POST it with the Home's headers
RefreshAuth(s, t) ==
    /\ s \in DOMAIN home
    /\ rtask[s][t].pc = "idle"
    /\ \A u \in 1..(t - 1) : rtask[s][u].pc # "idle"
    /\ rtask' = [rtask EXCEPT ![s][t] =
            [@ EXCEPT !.pc = "await", !.method = "POST", !.url = TOKEN_URL,
                      !.data = RefreshData(home[s]),
                      !.headers = heap[home[s].access_headers],
                      !.sent = @ + 1]]
    /\ UNCHANGED <<heap, login, home, ctask, cvars>>

\* line 147: self.access_headers["Authorization"] = "Bearer " + self.access_token
Line147Skipped(h, hp) == hp
Line147(h, hp) ==
    [hp EXCEPT ![h.access_headers] =
        SetItem(@, "Authorization", Bearer(h.access_token))]

\* lines 145-147 on the decoded response: the Home and the heap they leave, and
\* the exception that ended them, if any
RefreshAssignMixed(h, hp, response) ==
    IF "access_token" \notin DOMAIN response
    THEN [home |-> h, heap |-> hp, err |-> "KeyError"]
    ELSE LET h1 == [h EXCEPT !.access_token = response["access_token"]]
         IN  IF "refresh_token" \notin DOMAIN response
             THEN [home |-> h1, heap |-> hp, err |-> "KeyError"]
             ELSE [home |-> h1, heap |-> Line147(h1, hp), err |-> "none"]
RefreshAssign(h, hp, response) ==
    IF "access_token" \notin DOMAIN response
    THEN [home |-> h, heap |-> hp, err |-> "KeyError"]
    ELSE LET h1 == [h EXCEPT !.access_token = response["access_token"]]
         IN  IF "refresh_token" \notin DOMAIN response
             THEN [home |-> h1, heap |-> hp, err |-> "KeyError"]
             ELSE LET h2 == [h1 EXCEPT !.refresh_token = response["refresh_token"]]
                  IN  [home |-> h2, heap |-> Line147(h2, hp), err |-> "none"]

\* lines 139-147 on a response: what the call leaves and how it ends
RefreshOutcome(h, hp, resp) ==
    IF resp.kind = "neterr" THEN [home |-> h, heap |-> hp, err |-> "ClientError"]
    ELSE IF RaiseForStatus(resp.status)
         THEN [home |-> h, heap |-> hp, err |-> "ClientResponseError"]
    ELSE IF ~resp.json THEN [home |-> h, heap |-> hp, err |-> "ContentTypeError"]
    ELSE RefreshAssign(h, hp, resp.body)

\* lines 139-147: the token response arrives
RefreshResponse(s, t, resp) ==
    /\ rtask[s][t].pc = "await"
    /\ LET out == RefreshOutcome(home[s], heap, resp)
       IN  /\ home' = [home EXCEPT ![s] = out.home]
           /\ heap' = out.heap
           /\ rtask' = [rtask EXCEPT ![s][t] = Ended(@, out.err, EmptyDict)]
    /\ UNCHANGED <<login, ctask, cvars>>

----------------------------------------------------------------------------
(* Home._api_call(cmd, method, json) and get / post / put / delete *)

Methods == {"GET", "POST", "PUT", "DELETE"}
Cmds == {<<"me">>}

\* lines 104-113 read and write no __cache__ attribute: the caches after a call
\* is made, whatever its method
CacheAfterCallInvalidated(s, method) ==
    IF method = "GET" THEN cache ELSE [x \in DOMAIN cache |-> <<>>]
CacheAfterCall(s, method) == cache

\* lines 107-111: resolve the url and send the request with the Home's headers
ApiCall(s, t, cmd, method, json) ==
    /\ s \in DOMAIN home
    /\ ctask[s][t].pc = "idle"
    /\ \A u \in 1..(t - 1) : ctask[s][u].pc # "idle"
    /\ ctask' = [ctask EXCEPT ![s][t] =
            [@ EXCEPT !.pc = "await", !.method = method,
                      !.url = urljoin(API_URL, cmd), !.data = json,
                      !.headers = heap[home[s].access_headers],
                      !.sent = @ + 1]]
    /\ cache' = CacheAfterCall(s, method)
    /\ UNCHANGED <<heap, login, home, rtask, now, aliveAtExpiry, zoneObjects, atask,
                   unawaited>>

\* lines 112-113: how the call ends on a response
ApiOutcome(resp) ==
    IF resp.kind = "neterr" THEN "ClientError"
    ELSE IF RaiseForStatus(resp.status) THEN "ClientResponseError"
    ELSE IF ~resp.json THEN "ContentTypeError"
    ELSE "none"

\* lines 111-113: the response arrives
ApiResponse(s, t, resp) ==
    /\ ctask[s][t].pc = "await"
    /\ LET err == ApiOutcome(resp)
       IN  ctask' = [ctask EXCEPT ![s][t] =
              Ended(@, err, IF err = "none" THEN resp.body ELSE EmptyDict)]
    /\ UNCHANGED <<heap, login, home, rtask, cvars>>

----------------------------------------------------------------------------
(* Home.set_temperature(zone, temperature, termination) *)

\* the zones of a home, by id
ZoneIds == {1, 3}
\* temperatures asked for, in whole degrees
Temperatures == {-1, 0, 4, 5, 6, 21}

\* a termination argument: a str or an int
StrArg(x) == [type |-> "str", str |-> x, int |-> 0]
IntArg(n) == [type |-> "int", str |-> "", int |-> n]
Terminations == {StrArg("MANUAL"), StrArg("AUTO"), StrArg("auto"), IntArg(0), IntArg(1800)}

\* termination == "..." in Python: an int never equals a str
EqualsStr(arg, x) == arg.type = "str" /\ arg.str = x

\* lines 700-706
get_termination_dict_anycase(termination) ==
    IF EqualsStr(termination, "MANUAL") THEN [type |-> "MANUAL"]
    ELSE IF EqualsStr(termination, "AUTO") \/ EqualsStr(termination, "auto")
         THEN [type |-> "TADO_MODE"]
    ELSE [type |-> "TIMER", durationInSeconds |-> termination]
get_termination_dict(termination) ==
    IF EqualsStr(termination, "MANUAL") THEN [type |-> "MANUAL"]
    ELSE IF EqualsStr(termination, "AUTO") THEN [type |-> "TADO_MODE"]
    ELSE [type |-> "TIMER", durationInSeconds |-> termination]

\* lines 708-716
get_setting_dict_inclusive(temperature) ==
    IF temperature <= 5 THEN [type |-> "HEATING", power |-> "OFF"]
    ELSE [type |-> "HEATING", power |-> "ON",
          temperature |-> [celsius |-> temperature]]
get_setting_dict(temperature) ==
    IF temperature < 5 THEN [type |-> "HEATING", power |-> "OFF"]
    ELSE [type |-> "HEATING", power |-> "ON",
          temperature |-> [celsius |-> temperature]]

\* f"homes/{self.id}/zones/{zone}/overlay"
OverlayCmd(home_id, zone) == <<"homes/", home_id, "/zones/", zone, "/overlay">>

\* lines 718-720: build the payload and PUT it to the zone's overlay
SetTemperature(s, t, zone, temperature, termination) ==
    /\ s \in DOMAIN home
    /\ ApiCall(s, t, OverlayCmd(home[s].id, zone), "PUT",
               [setting |-> get_setting_dict(temperature),
                termination |-> get_termination_dict(termination)])

\* f"homes/{self.id}/zones/{zone}/earlyStart" and f"homes/{self.id}/presence"
EarlyStartCmd(home_id, zone) == <<"homes/", home_id, "/zones/", zone, "/earlyStart">>
PresenceCmd(home_id) == <<"homes/", home_id, "/presence">>

\* lines 656-658: Home.set_early_start(zone, enabled)
SetEarlyStart(s, t, zone, enabled) ==
    /\ s \in DOMAIN home
    /\ ApiCall(s, t, EarlyStartCmd(home[s].id, zone), "PUT", [enabled |-> enabled])

\* lines 722-724: Home.end_manual_control(zone)
EndManualControl(s, t, zone) ==
    /\ s \in DOMAIN home
    /\ ApiCall(s, t, OverlayCmd(home[s].id, zone), "DELETE", EmptyDict)

\* lines 317-318: Home.set_presence(to)
Presences == {"HOME", "AWAY"}
SetPresence(s, t, to) ==
    /\ s \in DOMAIN home
    /\ ApiCall(s, t, PresenceCmd(home[s].id), "PUT", [homePresence |-> to])

----------------------------------------------------------------------------
(* cachetools.TTLCache(maxsize, ttl), as async_cached_property uses it.  A     *)
(* cache is the sequence of its links, least recently used first; a link is   *)
(* [key, value, expires].                                                      *)

\* line 58: maxsize=16, ttl=60
MaxSize == 16
TTL == 60

EmptyCache == <<>>

HasLink(c, key) == \E i \in 1..Len(c) : c[i].key = key
Link(c, key) == c[CHOOSE i \in 1..Len(c) : c[i].key = key]

\* whether a link has expired at `time`; releases of cachetools differ at
\* time = expires
Expired(link, time) ==
    IF aliveAtExpiry THEN link.expires < time ELSE link.expires <= time

\* TTLCache.__contains__ (line 71, key in cache): a link that has not expired
ContainsForever(c, key, time) == HasLink(c, key)
Contains(c, key, time) == HasLink(c, key) /\ ~Expired(Link(c, key), time)

\* TTLCache.__getitem__ (line 72, cache[key]) on a live link: the link becomes
\* the most recently used
Touch(c, key) == SelectSeq(c, LAMBDA l : l.key # key) \o <<Link(c, key)>>

\* TTLCache.expire(time): drop the expired links
Expire(c, time) == SelectSeq(c, LAMBDA l : ~Expired(l, time))

\* TTLCache.__setitem__ (line 75, cache[key] = value): drop the expired links,
\* make room by dropping the least recently used link when the key is new and
\* the cache is full, and store the value with expires = time + ttl
CacheSetSmall(c, key, value, time) ==
    LET live == Expire(c, time)
        room == IF ~HasLink(live, key) /\ Len(live) >= 8
                THEN Tail(live) ELSE live
    IN  SelectSeq(room, LAMBDA l : l.key # key)
            \o <<[key |-> key, value |-> value, expires |-> time + TTL]>>
CacheSetDefault(c, key, value, time) ==
    LET live == Expire(c, time)
        room == IF ~HasLink(live, key) /\ Len(live) >= MaxSize
                THEN Tail(live) ELSE live
    IN  IF HasLink(live, key) THEN live
        ELSE room \o <<[key |-> key, value |-> value, expires |-> time + TTL]>>
CacheSet(c, key, value, time) ==
    LET live == Expire(c, time)
        room == IF ~HasLink(live, key) /\ Len(live) >= MaxSize
                THEN Tail(live) ELSE live
    IN  SelectSeq(room, LAMBDA l : l.key # key)
            \o <<[key |-> key, value |-> value, expires |-> time + TTL]>>

----------------------------------------------------------------------------
(* async_cached_property: the cached properties of Home and Zone. *)

HomeKeys == {"home", "devices", "installations", "invitations", "me",
             "mobile_devices", "users", "weather", "zones"}
ZoneKeys == {"schedule", "early_start", "state", "capabilities"}

\* objects that carry cached properties, by identity
HomeRef(s) == [kind |-> "Home", n |-> s]
ZoneRef(n) == [kind |-> "Zone", n |-> n]
Objects ==
    {HomeRef(s) : s \in DOMAIN home} \cup {ZoneRef(n) : n \in 1..Len(zoneObjects)}
KeysOf(o) == IF o.kind = "Home" THEN HomeKeys ELSE ZoneKeys

\* the Home whose _api_call an object's properties go through (self, self.api)
ApiOf(o) == IF o.kind = "Home" THEN o.n ELSE zoneObjects[o.n].api

\* lines 67-70: the object's cache, a new TTLCache when it has none yet
CacheOfClass(o) ==
    LET first == IF o.kind = "Home" THEN HomeRef(1) ELSE ZoneRef(1)
    IN  IF first \in DOMAIN cache THEN cache[first] ELSE EmptyCache
CacheOf(o) == IF o \in DOMAIN cache THEN cache[o] ELSE EmptyCache

\* cache with the object's __cache__ attribute set to c
WithCache(o, c) ==
    [x \in DOMAIN cache \cup {o} |-> IF x = o THEN c ELSE cache[x]]

\* the relative url a property GETs (lines 174, 251, 269, 311, 334, 393, 423,
\* 428, 457, 515, 520, 558, 636)
PropertyCmd(o, key) ==
    LET id == home[ApiOf(o)].id IN
    IF o.kind = "Home"
    THEN CASE key = "home" -> <<"homes/", id>>
           [] key = "devices" -> <<"homes/", id, "/devices">>
           [] key = "installations" -> <<"homes/", id, "/installations">>
           [] key = "invitations" -> <<"homes/", id, "/invitations">>
           [] key = "me" -> <<"me">>
           [] key = "mobile_devices" -> <<"homes/", id, "/mobileDevices">>
           [] key = "users" -> <<"homes/", id, "/users">>
           [] key = "weather" -> <<"homes/", id, "/weather">>
           [] key = "zones" -> <<"homes/", id, "/zones">>
    ELSE LET z == zoneObjects[o.n].id IN
         CASE key = "schedule" ->
                <<"homes/", id, "/zones/", z, "/schedule/activeTimetable">>
           [] key = "early_start" -> <<"homes/", id, "/zones/", z, "/earlyStart">>
           [] key = "state" -> <<"homes/", id, "/zones/", z, "/state">>
           [] key = "capabilities" -> <<"homes/", id, "/zones/", z, "/capabilities">>

\* JSON bodies the property endpoints may send
JsonBodies == {[json |-> "v1"], [json |-> "v2"]}
ZoneListBodies ==
    {<<[id |-> 1, name |-> "Living"]>>,
     <<[id |-> 1, name |-> "Living"], [id |-> 3, name |-> "Bath"]>>}
EarlyStartBodies == {[enabled |-> TRUE], [enabled |-> FALSE], EmptyDict}
PropertyBodies(key) ==
    IF key = "zones" THEN ZoneListBodies
    ELSE IF key = "early_start" THEN EarlyStartBodies
    ELSE JsonBodies
PropertyResponses(key) == {NetErr} \cup HttpResponses(PropertyBodies(key))

\* lines 727-732, Zone(api, id, name, **extras)
NewZoneUnnamed(api, z) == [api |-> api, id |-> z.id, name |-> ""]
NewZone(api, z) == [api |-> api, id |-> z.id, name |-> z.name]

\* what a property makes of the decoded body: the value, the Zone objects it
\* constructs, the exception it raises.  Line 637 builds the mapping of the zone
\* listing, line 270 reads response["enabled"], the others return the body.
PropertyValueReused(o, key, body) ==
    LET known(z) == {n \in 1..Len(zoneObjects) :
                        zoneObjects[n].id = z /\ zoneObjects[n].api = ApiOf(o)}
        ids == {body[i].id : i \in 1..Len(body)}
    IN
    IF key = "zones" /\ (\A z \in ids : known(z) # {})
    THEN [err |-> "none",
          value |-> [z \in ids |->
                        ZoneRef(CHOOSE n \in known(z) : \A m \in known(z) : m <= n)],
          made |-> <<>>]
    ELSE IF key = "zones"
    THEN [err |-> "none",
          value |-> [z \in ids |->
                        ZoneRef(Len(zoneObjects)
                                + (CHOOSE i \in 1..Len(body) :
                                     /\ body[i].id = z
                                     /\ \A j \in (i + 1)..Len(body) : body[j].id # z))],
          made |-> [i \in 1..Len(body) |-> NewZone(ApiOf(o), body[i])]]
    ELSE IF key = "early_start"
    THEN IF "enabled" \in DOMAIN body
         THEN [err |-> "none", value |-> body["enabled"], made |-> <<>>]
         ELSE [err |-> "KeyError", value |-> FALSE, made |-> <<>>]
    ELSE [err |-> "none", value |-> body, made |-> <<>>]
PropertyValue(o, key, body) ==
    IF key = "zones"
    THEN [err |-> "none",
          value |-> [z \in {body[i].id : i \in 1..Len(body)} |->
                        ZoneRef(Len(zoneObjects)
                                + (CHOOSE i \in 1..Len(body) :
                                     /\ body[i].id = z
                                     /\ \A j \in (i + 1)..Len(body) : body[j].id # z))],
          made |-> [i \in 1..Len(body) |-> NewZone(ApiOf(o), body[i])]]
    ELSE IF key = "early_start"
    THEN IF "enabled" \in DOMAIN body
         THEN [err |-> "none", value |-> body["enabled"], made |-> <<>>]
         ELSE [err |-> "KeyError", value |-> FALSE, made |-> <<>>]
    ELSE [err |-> "none", value |-> body, made |-> <<>>]

\* the Zone objects
ZoneObjects == {ZoneRef(n) : n \in 1..Len(zoneObjects)}

\* lines 768-771: Zone.set_temperature(temperature, termination)
ZoneSetTemperature(o, t, temperature, termination) ==
    /\ o \in ZoneObjects
    /\ SetTemperature(ApiOf(o), t, zoneObjects[o.n].id, temperature, termination)

\* lines 765-766: Zone.end_manual_control()
ZoneEndManualControl(o, t) ==
    /\ o \in ZoneObjects
    /\ EndManualControl(ApiOf(o), t, zoneObjects[o.n].id)

\* lines 742-744: zone.early_start = val.  The setter of the property is an
\* async def: the assignment calls it, which creates a coroutine object and
\* runs none of its body, and drops the object; nothing awaits it.
ZoneEarlyStartAssign(o, val) ==
    /\ o \in ZoneObjects
    /\ unawaited < MaxUnawaited
    /\ unawaited' = unawaited + 1
    /\ UNCHANGED <<heap, login, home, rtask, ctask, now, aliveAtExpiry, zoneObjects,
                   cache, atask>>

\* glom.glom(target, path) on nested dicts: the value under the keys of the
\* path, PathAccessError when one of them is missing
RECURSIVE Glom(_, _)
Glom(target, path) ==
    IF path = <<>> THEN [err |-> "none", value |-> target]
    ELSE IF Head(path) \in DOMAIN target THEN Glom(target[Head(path)], Tail(path))
    ELSE [err |-> "PathAccessError", value |-> 0]

\* lines 754-763: what Zone.inside_temperature and Zone.humidity make of the
\* state they have awaited; a cached property read directly is returned as is
HumidityPath == <<"sensorDataPoints", "humidity", "percentage">>
InsideTemperaturePathFixed(unit) ==
    <<"sensorDataPoints", "insideTemperature", "fahrenheit">>
InsideTemperaturePath(unit) == <<"sensorDataPoints", "insideTemperature", unit>>
Project(via, o, value) ==
    IF via = "inside_temperature"
    THEN Glom(value, InsideTemperaturePath(home[ApiOf(o)].temperature_unit))
    ELSE IF via = "humidity" THEN Glom(value, HumidityPath)
    ELSE [err |-> "none", value |-> value]

\* an access of a cached property: its position, the object and the key, the
\* property of the Zone it is read for (inside_temperature, humidity) if any,
\* the network calls it has made with the url of the last, and how it ended
AccessIdle ==
    [pc |-> "idle", obj |-> HomeRef(0), key |-> "", via |-> "", sent |-> 0,
     url |-> <<>>, err |-> "none", result |-> <<>>]

InFlight == {a \in DOMAIN atask : atask[a].pc \in {"hit", "await"}}

\* no access is between line 71 and line 72 (no await separates them, so no
\* other coroutine runs there; the clock does)
NoneAtLine72 == \A a \in DOMAIN atask : atask[a].pc # "hit"

\* lines 66-71 and, on a miss, line 74 down to the request of _api_call
\* (lines 107-111); at most `limit` accesses are in progress
Access(a, o, key, via, limit) ==
    /\ o \in Objects
    /\ key \in KeysOf(o)
    /\ atask[a].pc \in {"idle", "done", "raised"}
    /\ NoneAtLine72
    /\ Cardinality(InFlight) < limit
    /\ cache' = WithCache(o, CacheOf(o))
    /\ atask' = [atask EXCEPT ![a] =
            IF Contains(CacheOf(o), key, now)
            THEN [AccessIdle EXCEPT !.pc = "hit", !.obj = o, !.key = key,
                                    !.via = via]
            ELSE [AccessIdle EXCEPT !.pc = "await", !.obj = o, !.key = key,
                                    !.via = via, !.sent = 1,
                                    !.url = urljoin(API_URL, PropertyCmd(o, key))]]
    /\ UNCHANGED <<heap, login, home, rtask, ctask, now, aliveAtExpiry, zoneObjects, unawaited>>

\* a cached property read directly
CachedGet(a, o, key, limit) == Access(a, o, key, "", limit)

\* lines 754-759 and 761-763: Zone.inside_temperature and Zone.humidity await
\* self.state and project it
InsideTemperature(a, o, limit) ==
    o.kind = "Zone" /\ Access(a, o, "state", "inside_temperature", limit)
Humidity(a, o, limit) ==
    o.kind = "Zone" /\ Access(a, o, "state", "humidity", limit)

\* line 72: return cache[key]; KeyError when the link has expired meanwhile
CachedRead(a) ==
    /\ atask[a].pc = "hit"
    /\ LET o == atask[a].obj
           key == atask[a].key
           c == cache[o]
       IN  IF Contains(c, key, now)
           THEN LET got == Project(atask[a].via, o, Link(c, key).value) IN
                /\ cache' = [cache EXCEPT ![o] = Touch(c, key)]
                /\ atask' = [atask EXCEPT ![a] =
                        [@ EXCEPT !.pc = IF got.err = "none" THEN "done" ELSE "raised",
                                  !.err = got.err,
                                  !.result = IF got.err = "none" THEN <<got.value>>
                                             ELSE <<>>]]
           ELSE /\ cache' = cache
                /\ atask' = [atask EXCEPT ![a] =
                        [@ EXCEPT !.pc = "raised", !.err = "KeyError"]]
    /\ UNCHANGED <<heap, login, home, rtask, ctask, now, aliveAtExpiry, zoneObjects, unawaited>>

\* lines 74-75: the cache after the computation has ended; an exception leaves
\* line 74 before line 75 runs
CacheAfterAlways(c, key, err, value, time) == CacheSet(c, key, value, time)
CacheAfter(c, key, err, value, time) ==
    IF err = "none" THEN CacheSet(c, key, value, time) ELSE c

\* lines 111-113 of the property's _api_call, the property's own code, and
\* lines 75-76: the response arrives
ComputeResponse(a, resp) ==
    /\ atask[a].pc = "await"
    /\ NoneAtLine72
    /\ LET o == atask[a].obj
           key == atask[a].key
           neterr == ApiOutcome(resp)
           made == IF neterr = "none" THEN PropertyValue(o, key, resp.body)
                   ELSE [err |-> neterr, value |-> FALSE, made |-> <<>>]
           got == IF made.err = "none" THEN Project(atask[a].via, o, made.value)
                  ELSE made
       IN  /\ Len(zoneObjects) + Len(made.made) <= MaxZones
           /\ atask' = [atask EXCEPT ![a] =
                  [@ EXCEPT !.pc = IF got.err = "none" THEN "done" ELSE "raised",
                            !.err = got.err,
                            !.result = IF got.err = "none" THEN <<got.value>>
                                       ELSE <<>>]]
           /\ zoneObjects' = zoneObjects \o made.made
           /\ cache' = [cache EXCEPT ![o] =
                            CacheAfter(@, key, made.err, made.value, now)]
    /\ UNCHANGED <<heap, login, home, rtask, ctask, now, aliveAtExpiry, unawaited>>

\* the clock advances
Tick ==
    /\ now + TickStep <= MaxTime
    /\ now' = now + TickStep
    /\ UNCHANGED <<heap, login, home, rtask, ctask, aliveAtExpiry, zoneObjects, cache, atask, unawaited>>

----------------------------------------------------------------------------
(* Specifications. *)

Init ==
    /\ heap = (HeadersId :> HEADERS)
    /\ login = [s \in Sessions |-> LoginIdle]
    /\ home = EmptyDict
    /\ rtask = [s \in Sessions |-> [t \in 1..MaxRefresh |-> TaskIdle]]
    /\ ctask = [s \in Sessions |-> [t \in 1..MaxApiCalls |-> TaskIdle]]
    /\ now = 0
    /\ aliveAtExpiry = FALSE
    /\ zoneObjects = <<>>
    /\ cache = EmptyDict
    /\ atask = [a \in 1..MaxAccess |-> AccessIdle]
    /\ unawaited = 0

\* the same start for the specifications that create TTLCaches: either
\* behaviour of the installed cachetools at now = expires
InitCache ==
    /\ heap = (HeadersId :> HEADERS)
    /\ login = [s \in Sessions |-> LoginIdle]
    /\ home = EmptyDict
    /\ rtask = [s \in Sessions |-> [t \in 1..MaxRefresh |-> TaskIdle]]
    /\ ctask = [s \in Sessions |-> [t \in 1..MaxApiCalls |-> TaskIdle]]
    /\ now = 0
    /\ aliveAtExpiry \in BOOLEAN
    /\ zoneObjects = <<>>
    /\ cache = EmptyDict
    /\ atask = [a \in 1..MaxAccess |-> AccessIdle]
    /\ unawaited = 0

\* a login() run against a server that accepts the credentials
AcceptingTokenResponses ==
    {r \in TokenResponses :
        r.kind = "http" /\ r.status = 200 /\ r.json
        /\ DOMAIN r.body = {"access_token", "refresh_token"}}
AcceptingV1Responses ==
    {r \in V1Responses : r.kind = "http" /\ r.status = 200 /\ r.json}
AcceptingMeResponses ==
    {r \in MeResponses :
        r.kind = "http" /\ r.status = 200 /\ r.json
        /\ "homes" \in DOMAIN r.body /\ Len(r.body["homes"]) = 1}

\* the login of the spec's scenario: tokens A1 and R1, one home, 42
ScenarioTokenResponses ==
    {r \in AcceptingTokenResponses :
        r.body = [access_token |-> "A1", refresh_token |-> "R1"]}
ScenarioMeResponses ==
    {r \in AcceptingMeResponses : r.body = [homes |-> <<[id |-> 42]>>]}

\* The life of one session: the scenario's login(), then refresh_auth() and
\* _api_call() calls on the Home it returned, in any order and overlapping,
\* against any server.
Next ==
    \E s \in {1} :
        \/ \E u \in Usernames, p \in Passwords, c \in Secrets : Login(s, u, p, c)
        \/ \E resp \in ScenarioTokenResponses : LoginTokenResponse(s, resp)
        \/ \E resp \in AcceptingV1Responses : LoginV1Response(s, resp)
        \/ \E resp \in ScenarioMeResponses : LoginMeResponse(s, resp)
        \/ \E t \in 1..MaxRefresh : RefreshAuth(s, t)
        \/ \E t \in 1..MaxRefresh, resp \in TokenResponses : RefreshResponse(s, t, resp)
        \/ \E t \in 1..MaxApiCalls, c \in Cmds, m \in Methods :
                ApiCall(s, t, c, m, EmptyDict)
        \/ \E t \in 1..MaxApiCalls, resp \in ApiResponses : ApiResponse(s, t, resp)

Spec == Init /\ [][Next]_vars

\* login() against any server, and the first calls on the Home it returned.
NextLogin ==
    \E s \in {1} :
        \/ \E u \in Usernames, p \in Passwords, c \in Secrets : Login(s, u, p, c)
        \/ \E resp \in TokenResponses : LoginTokenResponse(s, resp)
        \/ \E resp \in V1Responses : LoginV1Response(s, resp)
        \/ \E resp \in MeResponses : LoginMeResponse(s, resp)
        \/ \E t \in 1..MaxApiCalls, c \in Cmds, m \in Methods :
                ApiCall(s, t, c, m, EmptyDict)
        \/ \E t \in 1..MaxApiCalls, resp \in ApiResponses : ApiResponse(s, t, resp)

SpecLogin == Init /\ [][NextLogin]_vars

\* set_temperature() calls on the Home of an accepted login().
NextTemp ==
    \E s \in {1} :
        \/ \E u \in Usernames, p \in Passwords, c \in Secrets : Login(s, u, p, c)
        \/ \E resp \in AcceptingTokenResponses : LoginTokenResponse(s, resp)
        \/ \E resp \in AcceptingV1Responses : LoginV1Response(s, resp)
        \/ \E resp \in AcceptingMeResponses : LoginMeResponse(s, resp)
        \/ \E t \in 1..MaxApiCalls, z \in ZoneIds, temp \in Temperatures,
              term \in Terminations : SetTemperature(s, t, z, temp, term)
        \/ \E t \in 1..MaxApiCalls, resp \in ApiResponses : ApiResponse(s, t, resp)

SpecTemp == Init /\ [][NextTemp]_vars

\* the properties the caching specification reads, and what its server sends:
\* any answer, the zone listing always naming one zone
ProbedKeys == {"me", "zones", "state"}
ProbedResponses(key) ==
    {r \in PropertyResponses(key) : key = "zones" => Len(r.body) <= 1}

\* Accesses of cached properties, one at a time, on the Home of the scenario's
\* login() and on the Zone objects its zone listing constructs, while the clock
\* advances.
NextCache ==
    \/ \E u \in Usernames, p \in Passwords, c \in Secrets : Login(1, u, p, c)
    \/ \E resp \in ScenarioTokenResponses : LoginTokenResponse(1, resp)
    \/ \E resp \in AcceptingV1Responses : LoginV1Response(1, resp)
    \/ \E resp \in ScenarioMeResponses : LoginMeResponse(1, resp)
    \/ \E a \in 1..MaxAccess, o \in Objects, key \in ProbedKeys :
            CachedGet(a, o, key, 1)
    \/ \E a \in 1..MaxAccess : CachedRead(a)
    \/ \E a \in 1..MaxAccess :
            \E resp \in ProbedResponses(atask[a].key) : ComputeResponse(a, resp)
    \/ Tick

SpecCache == InitCache /\ [][NextCache]_vars

\* a property's request answered 200 with a JSON body
OkResponses(key) ==
    {r \in ProbedResponses(key) : r.kind = "http" /\ r.status = 200 /\ r.json}

\* the properties read on two instances
PairKeys == {"zones", "state"}

\* Two login() runs, and accesses, one at a time, of the same properties on
\* the two Homes and on the Zones of their listings, every request answered.
NextPair ==
    \/ \E s \in Sessions :
        \/ \E u \in Usernames, p \in Passwords, c \in Secrets : Login(s, u, p, c)
        \/ \E resp \in ScenarioTokenResponses : LoginTokenResponse(s, resp)
        \/ \E resp \in AcceptingV1Responses : LoginV1Response(s, resp)
        \/ \E resp \in ScenarioMeResponses : LoginMeResponse(s, resp)
    \/ \E a \in DOMAIN atask, o \in Objects, key \in PairKeys :
            CachedGet(a, o, key, 1)
    \/ \E a \in DOMAIN atask : CachedRead(a)
    \/ \E a \in DOMAIN atask :
            \E resp \in OkResponses(atask[a].key) : ComputeResponse(a, resp)
    \/ Tick

SpecPair == InitCache /\ [][NextPair]_vars

\* zone arrays the listing endpoint may send: none, one or two zones, and two
\* elements with one id
ZoneArrays ==
    ZoneListBodies
    \cup {<<>>,
          <<[id |-> 3, name |-> "Bath"]>>,
          <<[id |-> 1, name |-> "Living"], [id |-> 1, name |-> "Hall"]>>}
ZoneArrayResponses == {NetErr} \cup HttpResponses(ZoneArrays)

\* Zone listings of the Home of the scenario's login(), any answer, while the
\* clock advances.
NextList ==
    \/ \E u \in Usernames, p \in Passwords, c \in Secrets : Login(1, u, p, c)
    \/ \E resp \in ScenarioTokenResponses : LoginTokenResponse(1, resp)
    \/ \E resp \in AcceptingV1Responses : LoginV1Response(1, resp)
    \/ \E resp \in ScenarioMeResponses : LoginMeResponse(1, resp)
    \/ \E a \in DOMAIN atask : CachedGet(a, HomeRef(1), "zones", 1)
    \/ \E a \in DOMAIN atask : CachedRead(a)
    \/ \E a \in DOMAIN atask, resp \in ZoneArrayResponses : ComputeResponse(a, resp)
    \/ Tick

SpecList == InitCache /\ [][NextList]_vars

\* a listing of one zone, answered 200
OneZoneResponses ==
    {r \in ZoneArrayResponses :
        r.kind = "http" /\ r.status = 200 /\ r.json /\ Len(r.body) = 1}

\* what the server sends for a property read in the Zone specifications: no
\* answer, or 200 with a JSON body
ZoneOpResponses(key) ==
    IF key = "zones" THEN OneZoneResponses
    ELSE {r \in PropertyResponses(key) :
            r.kind = "neterr" \/ (r.status = 200 /\ r.json)}

\* the arguments the Zone specification passes to set_temperature
DelegateTemperatures == {4, 21}
DelegateTerminations == {StrArg("AUTO"), IntArg(1800)}

\* Every operation of the Zones of one listing of the scenario's Home: the
\* cached properties, one at a time, and set_temperature, end_manual_control
\* and the assignment of early_start.
NextDelegate ==
    \/ \E u \in Usernames, p \in Passwords, c \in Secrets : Login(1, u, p, c)
    \/ \E resp \in ScenarioTokenResponses : LoginTokenResponse(1, resp)
    \/ \E resp \in AcceptingV1Responses : LoginV1Response(1, resp)
    \/ \E resp \in ScenarioMeResponses : LoginMeResponse(1, resp)
    \/ \E a \in DOMAIN atask :
            Len(zoneObjects) = 0 /\ CachedGet(a, HomeRef(1), "zones", 1)
    \/ \E a \in DOMAIN atask, o \in ZoneObjects, key \in ZoneKeys :
            CachedGet(a, o, key, 1)
    \/ \E a \in DOMAIN atask : CachedRead(a)
    \/ \E a \in DOMAIN atask :
            \E resp \in ZoneOpResponses(atask[a].key) : ComputeResponse(a, resp)
    \/ \E o \in ZoneObjects, t \in 1..MaxApiCalls, temp \in DelegateTemperatures,
          term \in DelegateTerminations : ZoneSetTemperature(o, t, temp, term)
    \/ \E o \in ZoneObjects, t \in 1..MaxApiCalls : ZoneEndManualControl(o, t)
    \/ \E o \in ZoneObjects, val \in BOOLEAN : ZoneEarlyStartAssign(o, val)
    \/ \E t \in 1..MaxApiCalls, resp \in ApiResponses : ApiResponse(1, t, resp)

SpecDelegate == InitCache /\ [][NextDelegate]_vars

\* the start of the specification of overlapping accesses: one more access than
\* the sequential specifications keep
InitRace ==
    /\ heap = (HeadersId :> HEADERS)
    /\ login = [s \in Sessions |-> LoginIdle]
    /\ home = EmptyDict
    /\ rtask = [s \in Sessions |-> [t \in 1..MaxRefresh |-> TaskIdle]]
    /\ ctask = [s \in Sessions |-> [t \in 1..MaxApiCalls |-> TaskIdle]]
    /\ now = 0
    /\ aliveAtExpiry \in BOOLEAN
    /\ zoneObjects = <<>>
    /\ cache = EmptyDict
    /\ atask = [a \in 1..(MaxAccess + 1) |-> AccessIdle]
    /\ unawaited = 0

\* Accesses of Home.me that may overlap, each access made once and access a
\* started before access a + 1, any answer, while the clock advances.
NextRace ==
    \/ \E u \in Usernames, p \in Passwords, c \in Secrets : Login(1, u, p, c)
    \/ \E resp \in ScenarioTokenResponses : LoginTokenResponse(1, resp)
    \/ \E resp \in AcceptingV1Responses : LoginV1Response(1, resp)
    \/ \E resp \in ScenarioMeResponses : LoginMeResponse(1, resp)
    \/ \E a \in DOMAIN atask :
            /\ atask[a].pc = "idle"
            /\ \A b \in 1..(a - 1) : atask[b].pc # "idle"
            /\ CachedGet(a, HomeRef(1), "me", Len(atask))
    \/ \E a \in DOMAIN atask : CachedRead(a)
    \/ \E a \in DOMAIN atask, resp \in PropertyResponses("me") :
            ComputeResponse(a, resp)
    \/ Tick

SpecRace == InitRace /\ [][NextRace]_vars

\* the property read around the writes, and what the server sends: the state
\* answered 200 with a JSON body, a refresh answered by nothing or by a new pair
\* of tokens, a write answered by nothing or by 200
WriteKeys == {"state"}
WriteReadResponses(key) ==
    IF key = "zones" THEN OneZoneResponses
    ELSE {r \in PropertyResponses(key) : r.kind = "http" /\ r.status = 200 /\ r.json}
WriteTokenResponses ==
    {r \in TokenResponses :
        r.kind = "neterr"
        \/ (r.status = 200 /\ r.json
            /\ r.body = [access_token |-> "A2", refresh_token |-> "R2"])}
WriteApiResponses ==
    {r \in ApiResponses : r.kind = "neterr" \/ (r.status = 200 /\ r.json)}

\* Reads of the cached state of the Zone of one listing of the scenario's Home
\* among one write, on the Home or through the Zone, an assignment of
\* early_start and one refresh, while the clock advances.  No coroutine runs
\* between lines 71 and 72 of an access.
NextWrite ==
    \/ \E u \in Usernames, p \in Passwords, c \in Secrets : Login(1, u, p, c)
    \/ \E resp \in ScenarioTokenResponses : LoginTokenResponse(1, resp)
    \/ \E resp \in AcceptingV1Responses : LoginV1Response(1, resp)
    \/ \E resp \in ScenarioMeResponses : LoginMeResponse(1, resp)
    \/ Len(zoneObjects) = 0 /\ CachedGet(1, HomeRef(1), "zones", 1)
    \/ \E o \in ZoneObjects, key \in WriteKeys : CachedGet(1, o, key, 1)
    \/ CachedRead(1)
    \/ \E resp \in WriteReadResponses(atask[1].key) : ComputeResponse(1, resp)
    \/ /\ NoneAtLine72
       /\ \/ \E z \in {1} : SetTemperature(1, 1, z, 21, StrArg("AUTO"))
          \/ \E z \in {1} : EndManualControl(1, 1, z)
          \/ \E z \in {1} : SetEarlyStart(1, 1, z, TRUE)
          \/ \E to \in {"AWAY"} : SetPresence(1, 1, to)
          \/ \E o \in ZoneObjects : ZoneSetTemperature(o, 1, 4, IntArg(1800))
          \/ \E o \in ZoneObjects : ZoneEndManualControl(o, 1)
          \/ \E resp \in WriteApiResponses : ApiResponse(1, 1, resp)
    \/ /\ NoneAtLine72
       /\ \E o \in ZoneObjects : ZoneEarlyStartAssign(o, FALSE)
    \/ /\ NoneAtLine72
       /\ \/ RefreshAuth(1, 1)
          \/ \E resp \in WriteTokenResponses : RefreshResponse(1, 1, resp)
    \/ Tick

SpecWrite == InitCache /\ [][NextWrite]_vars

\* the Zone properties read through the listings
RelistKeys == {"state", "schedule"}

\* a property's request answered 200 with a JSON body: a listing of one zone,
\* one body for a Zone property
RelistResponses(key) ==
    IF key = "zones" THEN OneZoneResponses
    ELSE {r \in PropertyResponses(key) :
            r.kind = "http" /\ r.status = 200 /\ r.json /\ r.body = [json |-> "v1"]}

\* The zone listing of the scenario's Home is read again and again and the
\* properties of the Zones it returned are read, one access at a time, while
\* the clock advances past the TTL.
NextRelist ==
    \/ \E u \in Usernames, p \in Passwords, c \in Secrets : Login(1, u, p, c)
    \/ \E resp \in ScenarioTokenResponses : LoginTokenResponse(1, resp)
    \/ \E resp \in AcceptingV1Responses : LoginV1Response(1, resp)
    \/ \E resp \in ScenarioMeResponses : LoginMeResponse(1, resp)
    \/ CachedGet(1, HomeRef(1), "zones", 1)
    \/ \E o \in ZoneObjects, key \in RelistKeys : CachedGet(1, o, key, 1)
    \/ CachedRead(1)
    \/ \E resp \in RelistResponses(atask[1].key) : ComputeResponse(1, resp)
    \/ Tick

SpecRelist == InitCache /\ [][NextRelist]_vars

\* the cached properties in the order the classes declare them (lines 177-561
\* and 735-751)
HomeKeyOrder ==
    <<"devices", "home", "installations", "invitations", "me", "mobile_devices",
      "users", "weather", "zones">>
ZoneKeyOrder == <<"schedule", "early_start", "state", "capabilities">>
KeyOrder(o) == IF o.kind = "Home" THEN HomeKeyOrder ELSE ZoneKeyOrder

\* what a caller that walks through the properties of an object reads next:
\* the first property in declaration order that has no live entry, or again
\* the property read last
FillKeys(o) ==
    LET c == CacheOf(o)
        order == KeyOrder(o)
        missing == {i \in 1..Len(order) : ~Contains(c, order[i], now)}
    IN  {order[i] : i \in {j \in missing : \A k \in missing : j <= k}}
            \cup (IF Len(c) > 0 THEN {c[Len(c)].key} ELSE {})

\* a property's request answered by nothing or answered 200 with a JSON body
FillResponses(key) ==
    IF key = "zones" THEN OneZoneResponses \cup {NetErr}
    ELSE {r \in PropertyResponses(key) :
            r.kind = "neterr"
            \/ (r.status = 200 /\ r.json /\ r.body \in {[json |-> "v1"], [enabled |-> TRUE]})}

\* the caller reads the Home, and the Zone listed last once every property of
\* its Home has a live entry
Walked(o) ==
    \/ o.kind = "Home"
    \/ /\ o.n = Len(zoneObjects)
       /\ \A k \in HomeKeys : Contains(CacheOf(HomeRef(ApiOf(o))), k, now)

\* Every cached property of the scenario's Home and of the Zones it lists is
\* read, one access at a time, while the clock advances past the TTL.
NextFill ==
    \/ \E u \in Usernames, p \in Passwords, c \in Secrets : Login(1, u, p, c)
    \/ \E resp \in ScenarioTokenResponses : LoginTokenResponse(1, resp)
    \/ \E resp \in AcceptingV1Responses : LoginV1Response(1, resp)
    \/ \E resp \in ScenarioMeResponses : LoginMeResponse(1, resp)
    \/ \E o \in Objects :
            Walked(o) /\ \E key \in FillKeys(o) : CachedGet(1, o, key, 1)
    \/ CachedRead(1)
    \/ \E resp \in FillResponses(atask[1].key) : ComputeResponse(1, resp)
    \/ Tick

SpecFill == InitCache /\ [][NextFill]_vars

\* zone states the state endpoint may send, temperatures in tenths of a degree
\* (20.5 is 205): two full ones and one without insideTemperature
SensorBodies ==
    {[sensorDataPoints |->
        [insideTemperature |-> [celsius |-> 205, fahrenheit |-> 689],
         humidity |-> [percentage |-> 55]]],
     [sensorDataPoints |->
        [insideTemperature |-> [celsius |-> 190, fahrenheit |-> 662],
         humidity |-> [percentage |-> 60]]],
     [sensorDataPoints |-> [humidity |-> [percentage |-> 40]]]}
SensorResponses(key) ==
    IF key = "zones" THEN OneZoneResponses
    ELSE {NetErr} \cup HttpResponses(SensorBodies)

\* state, inside_temperature and humidity of the Zone of one listing of the
\* scenario's Home, one access at a time, any answer, while the clock advances.
NextSensor ==
    \/ \E u \in Usernames, p \in Passwords, c \in Secrets : Login(1, u, p, c)
    \/ \E resp \in ScenarioTokenResponses : LoginTokenResponse(1, resp)
    \/ \E resp \in AcceptingV1Responses : LoginV1Response(1, resp)
    \/ \E resp \in ScenarioMeResponses : LoginMeResponse(1, resp)
    \/ \E a \in DOMAIN atask :
            Len(zoneObjects) = 0 /\ CachedGet(a, HomeRef(1), "zones", 1)
    \/ \E a \in DOMAIN atask, o \in ZoneObjects : CachedGet(a, o, "state", 1)
    \/ \E a \in DOMAIN atask, o \in ZoneObjects : InsideTemperature(a, o, 1)
    \/ \E a \in DOMAIN atask, o \in ZoneObjects : Humidity(a, o, 1)
    \/ \E a \in DOMAIN atask : CachedRead(a)
    \/ \E a \in DOMAIN atask :
            \E resp \in SensorResponses(atask[a].key) : ComputeResponse(a, resp)
    \/ Tick

SpecSensor == InitCache /\ [][NextSensor]_vars

\* every refresh_auth() call of the run on Home s has been started
AllRefreshing(s) == \A t \in 1..MaxRefresh : rtask[s][t].pc # "idle"

\* Overlapping refreshes: the refresh_auth() calls on the scenario's Home are
\* all started before the first token response arrives, the responses arrive
\* in any order from any server, and _api_call() calls start at any moment.
NextOverlap ==
    \/ \E u \in Usernames, p \in Passwords, c \in Secrets : Login(1, u, p, c)
    \/ \E resp \in ScenarioTokenResponses : LoginTokenResponse(1, resp)
    \/ \E resp \in AcceptingV1Responses : LoginV1Response(1, resp)
    \/ \E resp \in ScenarioMeResponses : LoginMeResponse(1, resp)
    \/ \E t \in 1..MaxRefresh : RefreshAuth(1, t)
    \/ \E t \in 1..MaxRefresh, resp \in TokenResponses :
            AllRefreshing(1) /\ RefreshResponse(1, t, resp)
    \/ \E t \in 1..MaxApiCalls, c \in Cmds, m \in Methods :
            ApiCall(1, t, c, m, EmptyDict)
    \/ \E t \in 1..MaxApiCalls, resp \in ApiResponses : ApiResponse(1, t, resp)

SpecOverlap == Init /\ [][NextOverlap]_vars

\* Two sessions: the scenario's login() is run twice, at any moments, and
\* refresh_auth() calls are made on the Home of the first, in any order and
\* overlapping, against any server.
NextIsolated ==
    \/ \E s \in Sessions :
        \/ \E u \in Usernames, p \in Passwords, c \in Secrets : Login(s, u, p, c)
        \/ \E resp \in ScenarioTokenResponses : LoginTokenResponse(s, resp)
        \/ \E resp \in AcceptingV1Responses : LoginV1Response(s, resp)
        \/ \E resp \in ScenarioMeResponses : LoginMeResponse(s, resp)
    \/ \E t \in 1..MaxRefresh : RefreshAuth(1, t)
    \/ \E t \in 1..MaxRefresh, resp \in TokenResponses : RefreshResponse(1, t, resp)

SpecIsolated == Init /\ [][NextIsolated]_vars

----------------------------------------------------------------------------
(* Properties of the session. *)

HasHome(s) == s \in DOMAIN home

\* the header dict of the Home of session s
HeadersOf(s) == heap[home[s].access_headers]

\* C2: in every reachable state of a session, the Authorization header is
\* "Bearer " followed by the stored access_token.
C2_AuthorizationReflectsToken ==
    \A s \in Sessions :
        HasHome(s) =>
            /\ "Authorization" \in DOMAIN HeadersOf(s)
            /\ HeadersOf(s)["Authorization"] = <<"Bearer ", home[s].access_token>>

\* C3: a refresh_auth() call that raises leaves access_token, refresh_token and
\* the headers exactly as they were when its response arrived.
C3_FailedRefreshMutatesNothing ==
    [][\A s \in Sessions : \A t \in 1..MaxRefresh :
          (HasHome(s) /\ rtask[s][t].pc = "await" /\ rtask'[s][t].pc = "raised")
              => (home'[s] = home[s] /\ heap' = heap)]_vars

\* C5: a refresh_auth() call posts a refresh_token grant with the stored secret
\* and the refresh_token stored at call time; when it succeeds on a response
\* carrying (A', R'), then access_token = A', refresh_token = R',
\* Authorization = "Bearer A'", and the other headers, username, secret and
\* home id are unchanged.
C5_RefreshOverwritesTokens ==
    [][\A s \in Sessions : \A t \in 1..MaxRefresh :
          /\ (HasHome(s) /\ rtask[s][t].pc = "idle" /\ rtask'[s][t].pc = "await")
                => /\ rtask'[s][t].method = "POST"
                   /\ rtask'[s][t].url = <<"https://auth.tado.com/oauth/token">>
                   /\ rtask'[s][t].data.grant_type = "refresh_token"
                   /\ rtask'[s][t].data.client_secret = home[s].secret
                   /\ rtask'[s][t].data.refresh_token = home[s].refresh_token
          /\ (rtask[s][t].pc = "await" /\ rtask'[s][t].pc = "done")
             => \A resp \in TokenResponses :
                RefreshResponse(s, t, resp)
                => /\ DOMAIN resp.body = {"access_token", "refresh_token"}
                   /\ home'[s].access_token = resp.body["access_token"]
                   /\ home'[s].refresh_token = resp.body["refresh_token"]
                   /\ home'[s].username = home[s].username
                   /\ home'[s].secret = home[s].secret
                   /\ home'[s].id = home[s].id
                   /\ home'[s].access_headers = home[s].access_headers
                   /\ DOMAIN heap' = DOMAIN heap
                   /\ \A d \in DOMAIN heap :
                        /\ DOMAIN heap'[d] = DOMAIN heap[d]
                        /\ \A k \in DOMAIN heap[d] :
                             heap'[d][k] =
                                IF d = home[s].access_headers /\ k = "Authorization"
                                THEN <<"Bearer ", resp.body["access_token"]>>
                                ELSE heap[d][k]]_vars

\* C5's case: a refresh has succeeded and replaced both tokens of the login.
C5_Witness ==
    /\ HasHome(1)
    /\ \E t \in 1..MaxRefresh : rtask[1][t].pc = "done"
    /\ home[1].access_token # login[1].access_token
    /\ home[1].refresh_token # login[1].refresh_token

\* what one _api_call() does besides its answer: one request, to the API and not
\* to the OAuth endpoint, tokens and headers untouched, no refresh started
ApiCallFrame(s, t) ==
    /\ (ctask[s][t].pc = "idle" /\ ctask'[s][t].pc = "await")
          => /\ ctask'[s][t].sent = 1
             /\ ctask'[s][t].url[1] = "https://my.tado.com/api/v2/"
             /\ ctask'[s][t].headers = HeadersOf(s)
             /\ UNCHANGED <<home, heap, rtask, cvars>>
    /\ (ctask[s][t].pc = "await" /\ ctask'[s][t].pc # "await")
          => /\ ctask'[s][t].sent = 1
             /\ ctask'[s][t].pc \in {"done", "raised"}
             /\ UNCHANGED <<home, heap, rtask, cvars>>

----------------------------------------------------------------------------
(* Properties of login(). *)

\* the token response a login() run has received (its second event)
TokenEvent(s) == login[s].events[2]

\* C7: login() returns no Home when the token endpoint answers with a status
\* that is not 2xx, or with a body lacking access_token or refresh_token.
C7_LoginRejectsNon2xx ==
    \A s \in Sessions :
        login[s].pc = "done" =>
            /\ TokenEvent(s).status \in 200..299
            /\ {"access_token", "refresh_token"} \subseteq DOMAIN TokenEvent(s).body

\* the order of a login() run's events
LoginOrder ==
    << <<"send", "POST", <<"https://auth.tado.com/oauth/token">> >>,
       <<"recv", "POST", <<"https://auth.tado.com/oauth/token">> >>,
       <<"send", "GET", <<"https://my.tado.com/api/v1/me">> >>,
       <<"recv", "GET", <<"https://my.tado.com/api/v1/me">> >>,
       <<"send", "GET", <<"https://my.tado.com/api/v2/", "me">> >>,
       <<"recv", "GET", <<"https://my.tado.com/api/v2/", "me">> >>,
       <<"return", "", <<>> >> >>

\* C8: the events of a login() run are, in this order, the password-grant POST,
\* one GET of the legacy v1 "me" carrying the new bearer token, the GET of the
\* v2 "me", the return; a Home exists, and calls on it are made, only after the
\* legacy GET has completed.
C8_LoginOrder ==
    \A s \in Sessions :
        LET ev == login[s].events IN
        /\ Len(ev) <= Len(LoginOrder)
        /\ \A i \in 1..Len(ev) :
                <<ev[i].ev, ev[i].method, ev[i].url>> = LoginOrder[i]
        /\ Len(ev) >= 1 => ev[1].data.grant_type = "password"
        /\ Len(ev) >= 3 =>
                /\ "Authorization" \in DOMAIN ev[3].headers
                /\ ev[3].headers["Authorization"]
                        = <<"Bearer ", ev[2].body["access_token"]>>
        /\ (login[s].pc = "done") = (Len(ev) = Len(LoginOrder))
        /\ HasHome(s) = (login[s].pc = "done")
        /\ \A t \in 1..MaxApiCalls : ctask[s][t].pc # "idle" => login[s].pc = "done"
        /\ \A t \in 1..MaxRefresh : rtask[s][t].pc # "idle" => login[s].pc = "done"

\* C8's case: login() has returned and a v2 call has been made on its Home.
C8_Witness ==
    /\ login[1].pc = "done"
    /\ \E t \in 1..MaxApiCalls : ctask[1][t].pc = "await"

\* C9: a login() that returns, on a token response {A, R} and a profile whose
\* homes list is not empty, returns a Home with access_token = A,
\* refresh_token = R, headers {Referer, Authorization: "Bearer A"} and the id of
\* the first home; a call made on it right away carries "Bearer A".
C9_LoginPopulatesHome ==
    \A s \in Sessions :
        login[s].pc = "done" =>
            LET tok == TokenEvent(s).body
                me == login[s].events[6].body
            IN  /\ HasHome(s)
                /\ home[s].access_token = tok["access_token"]
                /\ home[s].refresh_token = tok["refresh_token"]
                /\ HeadersOf(s) = [Referer |-> <<"https://my.tado.com/">>,
                                   Authorization |-> <<"Bearer ", tok["access_token"]>>]
                /\ home[s].id = me["homes"][1]["id"]
                /\ home[s].username = login[s].username
                /\ home[s].secret = login[s].secret
                /\ \A t \in 1..MaxApiCalls :
                      ctask[s][t].pc = "await" =>
                        ctask[s][t].headers["Authorization"]
                            = <<"Bearer ", tok["access_token"]>>

\* C9's case: login() returned on a profile listing two different homes, and a
\* call is in flight on the Home.
C9_Witness ==
    /\ login[1].pc = "done"
    /\ Len(login[1].events[6].body["homes"]) = 2
    /\ login[1].events[6].body["homes"][1]["id"]
            # login[1].events[6].body["homes"][2]["id"]
    /\ \E t \in 1..MaxApiCalls : ctask[1][t].pc = "await"

----------------------------------------------------------------------------
(* Properties of set_temperature(). *)

\* C10: whatever the termination, the setting of the payload is
\* {type: HEATING, power: OFF}, with no temperature, when temperature < 5, and
\* {type: HEATING, power: ON, temperature: {celsius: temperature}} otherwise.
C10_SettingFollowsTemperature ==
    [][\A s \in Sessions : \A t \in 1..MaxApiCalls :
        \A z \in ZoneIds, temp \in Temperatures, term \in Terminations :
            SetTemperature(s, t, z, temp, term) =>
                LET setting == ctask'[s][t].data["setting"] IN
                /\ setting["type"] = "HEATING"
                /\ temp < 5 =>
                      (DOMAIN setting = {"type", "power"} /\ setting["power"] = "OFF")
                /\ temp >= 5 =>
                      /\ DOMAIN setting = {"type", "power", "temperature"}
                      /\ setting["power"] = "ON"
                      /\ DOMAIN setting["temperature"] = {"celsius"}
                      /\ setting["temperature"]["celsius"] = temp]_vars

\* C10's case: a PUT in flight whose setting is OFF (temperature below 5) under a
\* TIMER termination.
C10_Witness ==
    /\ HasHome(1)
    /\ \E t \in 1..MaxApiCalls :
          /\ ctask[1][t].pc = "await"
          /\ ctask[1][t].method = "PUT"
          /\ "setting" \in DOMAIN ctask[1][t].data
          /\ ctask[1][t].data["setting"]["power"] = "OFF"
          /\ ctask[1][t].data["termination"]["type"] = "TIMER"

\* C11: whatever the temperature, the termination of the payload is
\* {type: MANUAL} for "MANUAL", {type: TADO_MODE} for "AUTO" and
\* {type: TIMER, durationInSeconds: N} for any other value N; the payload goes
\* out in exactly one PUT, to the overlay endpoint of the zone given.
C11_TerminationFollowsArgument ==
    [][\A s \in Sessions : \A t \in 1..MaxApiCalls :
        /\ \A z \in ZoneIds, temp \in Temperatures, term \in Terminations :
            SetTemperature(s, t, z, temp, term) =>
                LET sent == ctask'[s][t]
                    termination == sent.data["termination"]
                IN
                /\ DOMAIN sent.data = {"setting", "termination"}
                /\ term = StrArg("MANUAL")
                        => termination = [type |-> "MANUAL"]
                /\ term = StrArg("AUTO")
                        => termination = [type |-> "TADO_MODE"]
                /\ term \notin {StrArg("MANUAL"), StrArg("AUTO")}
                        => termination = [type |-> "TIMER",
                                          durationInSeconds |-> term]
                /\ sent.method = "PUT"
                /\ sent.url = <<"https://my.tado.com/api/v2/", "homes/",
                                home[s].id, "/zones/", z, "/overlay">>
                /\ sent.sent = 1
                /\ \A u \in 1..MaxApiCalls : u # t => ctask'[s][u] = ctask[s][u]
        /\ (ctask[s][t].pc = "await" /\ ctask'[s][t].pc # "await")
                => ctask'[s][t].sent = 1]_vars

\* C11's case: a PUT in flight whose termination is a TIMER of 1800 seconds, for
\* a temperature that switches the zone off.
C11_Witness ==
    /\ HasHome(1)
    /\ \E t \in 1..MaxApiCalls :
          /\ ctask[1][t].pc = "await"
          /\ ctask[1][t].method = "PUT"
          /\ "termination" \in DOMAIN ctask[1][t].data
          /\ ctask[1][t].data["termination"] =
                [type |-> "TIMER", durationInSeconds |-> IntArg(1800)]
          /\ ctask[1][t].data["setting"]["power"] = "OFF"

----------------------------------------------------------------------------
(* Properties of async_cached_property. *)

\* the links of every cache are the same in the next state (their order may not be)
SameLinks ==
    /\ DOMAIN cache \subseteq DOMAIN cache'
    /\ \A x \in DOMAIN cache' : \A k \in HomeKeys \cup ZoneKeys :
          /\ HasLink(cache'[x], k) = HasLink(CacheOf(x), k)
          /\ HasLink(cache'[x], k) => Link(cache'[x], k) = Link(cache[x], k)

\* the age of a link: it was stored 60 seconds before it expires
Age(link) == now - (link.expires - 60)

Non2xx(resp) == resp.kind = "neterr" \/ ~(resp.status \in 200..299)

\* the responses on which the property's network call raises: no response at
\* all, a status of 400 or more, or a body that is not JSON
Failing(resp) == resp.kind = "neterr" \/ resp.status >= 400 \/ ~resp.json

Stepping(a) == atask'[a] # atask[a]

\* the links of c, as a set
Links(c) == {c[i] : i \in 1..Len(c)}

\* the cache attached to object o itself, empty when it has none
OwnCache(o) == IF o \in DOMAIN cache THEN cache[o] ELSE <<>>

\* C12: caches are per instance.  An access on one object leaves the cache of
\* every other object as it was (nothing of theirs is written or evicted), it
\* finds the key present only if the object's own cache holds it, it returns
\* on a hit the value of the object's own cache, and the links of the object's
\* cache afterwards are links it had before or the result of this access.
C12_CachePerInstance ==
    [][\A a \in DOMAIN atask :
        Stepping(a) =>
            LET o == atask'[a].obj
                key == atask'[a].key
            IN
            /\ \A x \in DOMAIN cache' : x # o =>
                    (x \in DOMAIN cache /\ cache'[x] = cache[x])
            /\ atask'[a].pc = "hit"
                    => /\ HasLink(OwnCache(o), key)
                       /\ Link(OwnCache(o), key).expires >= now
            /\ (atask[a].pc = "hit" /\ atask'[a].pc = "done")
                    => atask'[a].result = <<Link(cache[o], key).value>>
            /\ \A l \in Links(cache'[o]) :
                    \/ l \in Links(OwnCache(o))
                    \/ /\ atask[a].pc = "await"
                       /\ atask'[a].pc = "done"
                       /\ l = [key |-> key, value |-> atask'[a].result[1],
                               expires |-> now + 60]]_vars

\* C12's case: the two Homes each hold their own zones entry and two Zones
\* each their own state entry, with different values under the same key.
C12_Witness ==
    /\ HasHome(1) /\ HasHome(2)
    /\ HasLink(OwnCache(HomeRef(1)), "zones")
    /\ HasLink(OwnCache(HomeRef(2)), "zones")
    /\ Link(OwnCache(HomeRef(1)), "zones").value
            # Link(OwnCache(HomeRef(2)), "zones").value
    /\ Len(zoneObjects) >= 2
    /\ HasLink(OwnCache(ZoneRef(1)), "state")
    /\ HasLink(OwnCache(ZoneRef(2)), "state")
    /\ Link(OwnCache(ZoneRef(1)), "state").value
            # Link(OwnCache(ZoneRef(2)), "state").value

----------------------------------------------------------------------------
(* Properties of the zone listing and of Zone. *)

ZoneUrl(o, suffix) ==
    <<"https://my.tado.com/api/v2/", "homes/", home[ApiOf(o)].id, "/zones/",
      zoneObjects[o.n].id, suffix>>

\* C14: every operation of a Zone performs the matching call of its Home with
\* the Zone's own id as the zone and the caller's other arguments unchanged:
\* the reads GET the zone's schedule, earlyStart, state and capabilities,
\* set_temperature and end_manual_control are Home.set_temperature and
\* Home.end_manual_control on that zone, and a write of early_start is
\* Home.set_early_start on that zone with the value written.
C14_ZoneDelegates ==
    [][\A o \in ZoneObjects :
        /\ \A a \in DOMAIN atask :
            (Stepping(a) /\ atask'[a].pc = "await" /\ atask'[a].obj = o)
                => /\ atask'[a].sent = 1
                   /\ atask'[a].key = "schedule"
                        => atask'[a].url = ZoneUrl(o, "/schedule/activeTimetable")
                   /\ atask'[a].key = "early_start"
                        => atask'[a].url = ZoneUrl(o, "/earlyStart")
                   /\ atask'[a].key = "state"
                        => atask'[a].url = ZoneUrl(o, "/state")
                   /\ atask'[a].key = "capabilities"
                        => atask'[a].url = ZoneUrl(o, "/capabilities")
        /\ \A t \in 1..MaxApiCalls :
            /\ \A temp \in DelegateTemperatures, term \in DelegateTerminations :
                    ZoneSetTemperature(o, t, temp, term)
                        => SetTemperature(ApiOf(o), t, zoneObjects[o.n].id, temp, term)
            /\ ZoneEndManualControl(o, t)
                    => EndManualControl(ApiOf(o), t, zoneObjects[o.n].id)
        /\ \A val \in BOOLEAN :
                ZoneEarlyStartAssign(o, val)
                    => \E t \in 1..MaxApiCalls :
                            SetEarlyStart(ApiOf(o), t, zoneObjects[o.n].id, val)]_vars

\* what C17 says a projection returns for the state `value`
Projected(via, unit, value) ==
    IF via = "inside_temperature"
    THEN value["sensorDataPoints"]["insideTemperature"][unit]
    ELSE value["sensorDataPoints"]["humidity"]["percentage"]

\* C17: inside_temperature and humidity of a Zone read that Zone's cached
\* state.  While the state entry is younger than 60 s they make no network call
\* and change no entry, and what they return is
\* state.sensorDataPoints.insideTemperature[unit], for the unit of the Zone's
\* Home, and state.sensorDataPoints.humidity.percentage; when the entry is
\* absent or older they make exactly one call, the fetch of the zone's state,
\* and return the projection of the state just fetched.
C17_SensorProjections ==
    [][\A a \in DOMAIN atask :
        LET o == atask'[a].obj
            via == atask'[a].via
            unit == home[ApiOf(o)].temperature_unit
        IN
        (Stepping(a) /\ via \in {"inside_temperature", "humidity"})
        => /\ atask'[a].key = "state"
           /\ o \in ZoneObjects
           /\ atask'[a].pc \in {"hit", "await"}
                => LET c == OwnCache(o) IN
                   /\ (HasLink(c, "state") /\ Age(Link(c, "state")) < 60)
                        => (atask'[a].pc = "hit" /\ atask'[a].sent = 0)
                   /\ (~HasLink(c, "state") \/ Age(Link(c, "state")) > 60)
                        => /\ atask'[a].pc = "await"
                           /\ atask'[a].sent = 1
                           /\ atask'[a].url = ZoneUrl(o, "/state")
                   /\ SameLinks
           /\ (atask[a].pc = "hit" /\ atask'[a].pc = "done")
                => /\ atask'[a].sent = 0
                   /\ SameLinks
                   /\ atask'[a].result
                        = <<Projected(via, unit, Link(cache[o], "state").value)>>
           /\ (atask[a].pc = "await" /\ atask'[a].pc = "done")
                => /\ atask'[a].sent = 1
                   /\ atask'[a].result
                        = <<Projected(via, unit, Link(cache'[o], "state").value)>>
                   /\ Link(cache'[o], "state").expires = now + 60]_vars

\* C17's case: inside_temperature, read on a Zone whose cached state holds
\* 20.5 degrees celsius, has returned 20.5 without a network call.
C17_Witness ==
    \E a \in DOMAIN atask :
        /\ atask[a].pc = "done"
        /\ atask[a].via = "inside_temperature"
        /\ atask[a].sent = 0
        /\ atask[a].result = <<205>>
        /\ home[ApiOf(atask[a].obj)].temperature_unit = "celsius"
        /\ Link(OwnCache(atask[a].obj), "state").value
                ["sensorDataPoints"]["insideTemperature"]["celsius"] = 205

----------------------------------------------------------------------------
(* Properties of overlapping coroutines. *)

\* C15: computations in flight are not shared.  An access that starts while
\* the key is absent or older than 60 s makes its own network call although
\* another access of the key is waiting for its answer, and leaves that one
\* waiting; and each access that completes stores its own result, so the cache
\* holds the result of the access that completed last, whichever started first.
C15_LastWriteWins ==
    [][\A a \in DOMAIN atask :
        LET o == atask'[a].obj
            key == atask'[a].key
        IN
        /\ (atask[a].pc = "idle" /\ Stepping(a)
                /\ (~HasLink(OwnCache(o), key)
                        \/ Age(Link(OwnCache(o), key)) > 60))
            => /\ atask'[a].pc = "await"
               /\ atask'[a].sent = 1
               /\ \A b \in DOMAIN atask : b # a => atask'[b] = atask[b]
        /\ (atask[a].pc = "await" /\ atask'[a].pc = "done")
            => /\ atask'[a].sent = 1
               /\ HasLink(cache'[o], key)
               /\ Link(cache'[o], key).value = atask'[a].result[1]
               /\ Link(cache'[o], key).expires = now + 60
               /\ \A resp \in PropertyResponses(key) :
                    (ApiOutcome(resp) = "none" /\ ComputeResponse(a, resp))
                        => atask'[a].result = <<resp.body>>]_vars

\* C15's case: two accesses of Home.me started while the key was absent, each
\* made its own call, the two got different results, and the cache holds the
\* result of the one that started first: it completed last.
C15_Witness ==
    /\ atask[1].pc = "done" /\ atask[2].pc = "done"
    /\ atask[1].sent = 1 /\ atask[2].sent = 1
    /\ atask[1].key = "me" /\ atask[2].key = "me"
    /\ atask[1].result # atask[2].result
    /\ Link(OwnCache(HomeRef(1)), "me").value = atask[1].result[1]

\* no refresh_auth() call on Home s has raised
NoneRaised(s) == \A t \in 1..MaxRefresh : rtask[s][t].pc # "raised"

\* C16: when refresh calls on one Home overlap, each one that succeeds leaves
\* access_token, refresh_token and the Authorization header all taken from its
\* own response, so after the last of them the three come from the response
\* that completed last and are never mixed; and while no refresh has failed, a
\* request that starts is sent with the header of the stored access_token, the
\* one of the response that completed before it.
C16_LastRefreshWins ==
    [][\A s \in Sessions :
        /\ \A t \in 1..MaxRefresh :
            (rtask[s][t].pc = "await" /\ rtask'[s][t].pc = "done")
                => \A resp \in TokenResponses :
                    RefreshResponse(s, t, resp)
                        => /\ home'[s].access_token = resp.body["access_token"]
                           /\ home'[s].refresh_token = resp.body["refresh_token"]
                           /\ heap'[home'[s].access_headers]["Authorization"]
                                = <<"Bearer ", resp.body["access_token"]>>
        /\ \A u \in 1..MaxApiCalls :
            (HasHome(s) /\ NoneRaised(s)
                /\ ctask[s][u].pc = "idle" /\ ctask'[s][u].pc = "await")
                => ctask'[s][u].headers["Authorization"]
                        = <<"Bearer ", home[s].access_token>>]_vars

\* C16's case: two overlapping refreshes have both succeeded, a request sent
\* between their completions carries the token A2 of the first response, and
\* the Home holds the pair (A1, R2) of the second with its header.
C16_Witness ==
    /\ HasHome(1)
    /\ rtask[1][1].pc = "done" /\ rtask[1][2].pc = "done"
    /\ \E u \in 1..MaxApiCalls :
          /\ ctask[1][u].pc = "await"
          /\ ctask[1][u].headers["Authorization"] = <<"Bearer ", "A2">>
    /\ home[1].access_token = "A1"
    /\ home[1].refresh_token = "R2"
    /\ HeadersOf(1)["Authorization"] = <<"Bearer ", "A1">>

\* a step of a write (the request of a Home or Zone write or its response), of
\* a refresh, or of an assignment to Zone.early_start
WriteStep ==
    ctask' # ctask \/ rtask' # rtask \/ unawaited' # unawaited

\* C18: no step of a write operation, of a refresh or of an assignment to
\* Zone.early_start changes any cache or any listed Zone object; an access
\* that starts while its key holds an entry younger than the TTL finds it
\* present and makes no network call, and when it returns it returns the value
\* of that entry, whatever was written meanwhile.
C18_WritesKeepCache ==
    [][/\ WriteStep => (cache' = cache /\ zoneObjects' = zoneObjects)
       /\ \A a \in DOMAIN atask :
            LET o == atask'[a].obj
                key == atask'[a].key
            IN
            /\ (atask[a].pc \in {"idle", "done", "raised"} /\ Stepping(a)
                    /\ HasLink(OwnCache(o), key)
                    /\ Age(Link(OwnCache(o), key)) < 60)
                => /\ atask'[a].pc = "hit"
                   /\ atask'[a].sent = 0
                   /\ cache' = cache
            /\ (atask[a].pc = "hit" /\ atask'[a].pc = "done")
                => /\ atask'[a].sent = 0
                   /\ atask'[a].result = <<Link(cache[o], key).value>>
                   /\ Links(cache'[o]) = Links(cache[o])]_vars

\* C18's case: the state of a listed Zone is cached, a write has been sent and
\* answered, a refresh has replaced the tokens and early_start was assigned,
\* and an access made after all of them has found the entry present, 30 s
\* after it was stored, without a network call.
C18_Witness ==
    /\ atask[1].pc = "hit" /\ atask[1].key = "state" /\ atask[1].sent = 0
    /\ atask[1].obj \in ZoneObjects
    /\ Contains(OwnCache(atask[1].obj), "state", now)
    /\ Age(Link(OwnCache(atask[1].obj), "state")) = 30
    /\ ctask[1][1].pc = "done" /\ ctask[1][1].sent = 1
    /\ rtask[1][1].pc = "done"
    /\ unawaited = 1

\* C19: an access of a cached property ends in one of two ways.  One that
\* found its key present at the membership check returns the value of the
\* entry, without a network call; one that did not makes one call and ends
\* with that call's outcome.  No access that found its key present ends with
\* a lookup error instead.
C19_TwoOutcomes ==
    [][\A a \in DOMAIN atask :
        /\ (atask[a].pc = "hit" /\ Stepping(a))
            => /\ atask'[a].pc = "done"
               /\ atask'[a].err = "none"
               /\ atask'[a].sent = 0
               /\ atask'[a].result
                    = <<Link(cache[atask[a].obj], atask[a].key).value>>
        /\ (atask[a].pc = "await" /\ Stepping(a))
            => /\ atask'[a].pc \in {"done", "raised"}
               /\ atask'[a].sent = 1]_vars

\* C20: a Home's cache never holds more than 9 entries and a Zone's never
\* more than 4, always fewer than the capacity of 16; and an entry that leaves
\* a cache had reached the age of 60 s, or was replaced by the store of a new
\* value under its own key: none is dropped to make room.
C20_NoCapacityEviction ==
    /\ [](\A o \in DOMAIN cache :
            /\ Len(cache[o]) <= (IF o.kind = "Home" THEN 9 ELSE 4)
            /\ Len(cache[o]) < MaxSize)
    /\ [][\A o \in DOMAIN cache : \A i \in 1..Len(cache[o]) :
            LET l == cache[o][i] IN
            (\A j \in 1..Len(cache'[o]) :
                    cache'[o][j].key = l.key => cache'[o][j] # l)
                => \/ Age(l) >= 60
                   \/ \E a \in DOMAIN atask :
                        /\ atask[a].pc = "await" /\ atask'[a].pc = "done"
                        /\ atask[a].obj = o /\ atask[a].key = l.key
                        /\ HasLink(cache'[o], l.key)]_vars

\* C20's case: every one of the 9 properties of the Home has an entry, every
\* one of the 4 of a Zone it listed has one, and the clock has passed the age
\* at which the first entries expired, so that entries were dropped and
\* stored again.
C20_Witness ==
    /\ HomeRef(1) \in DOMAIN cache
    /\ \A k \in HomeKeys : HasLink(cache[HomeRef(1)], k)
    /\ \E o \in ZoneObjects :
          /\ o \in DOMAIN cache
          /\ \A k \in ZoneKeys : HasLink(cache[o], k)
    /\ now >= 60
    /\ \E i \in 1..Len(cache[HomeRef(1)]) : cache[HomeRef(1)][i].expires > 60

\* C21: every computation of a Home's zone listing returns Zone instances
\* that did not exist before, one per listed id, none of which has a cache,
\* and leaves the caches of the Zone instances of earlier listings as they
\* were; the first access of a property through an instance that has no cache
\* makes one network call, the GET of that zone's property, whatever entries
\* the earlier instances of the same zone hold.
C21_RelistedZonesStartEmpty ==
    [][\A a \in DOMAIN atask :
        /\ (atask[a].pc = "await" /\ atask'[a].pc = "done"
                /\ atask[a].key = "zones")
            => /\ \A z \in DOMAIN atask'[a].result[1] :
                    LET made == atask'[a].result[1][z] IN
                    /\ made \notin ZoneObjects
                    /\ made.n \in 1..Len(zoneObjects')
                    /\ zoneObjects'[made.n].id = z
                    /\ made \notin DOMAIN cache'
               /\ \A o \in DOMAIN cache : o.kind = "Zone" => cache'[o] = cache[o]
        /\ (atask[a].pc \in {"idle", "done", "raised"} /\ Stepping(a)
                /\ atask'[a].obj.kind = "Zone"
                /\ atask'[a].obj \notin DOMAIN cache)
            => /\ atask'[a].pc = "await"
               /\ atask'[a].sent = 1
               /\ atask'[a].url
                    = ZoneUrl(atask'[a].obj,
                              IF atask'[a].key = "state" THEN "/state"
                              ELSE "/schedule/activeTimetable")]_vars

\* C21's case: the listing was computed twice for the same zone, the Zone of
\* the first listing holds a state entry that has not expired, and the access
\* of state through the Zone of the second listing has sent its request.
C21_Witness ==
    /\ Len(zoneObjects) = 2
    /\ zoneObjects[1].id = zoneObjects[2].id
    /\ zoneObjects[1].api = zoneObjects[2].api
    /\ Contains(OwnCache(ZoneRef(1)), "state", now)
    /\ atask[1].pc = "await" /\ atask[1].obj = ZoneRef(2)
    /\ atask[1].key = "state" /\ atask[1].sent = 1

\* C22: the module-level HEADERS mapping always has the contents it was
\* defined with, the Homes of two login() runs hold different header dicts,
\* and no step of a refresh_auth() call on one Home changes the other Home's
\* access_token, refresh_token or any other field, nor the contents of the
\* other Home's header dict.
C22_SessionsIsolated ==
    /\ [](/\ heap[HeadersId] = HEADERS
          /\ \A s \in Sessions : \A u \in Sessions \ {s} :
                (HasHome(s) /\ HasHome(u))
                    => /\ home[s].access_headers # home[u].access_headers
                       /\ home[s].access_headers # HeadersId)
    /\ [][\A s \in Sessions :
            rtask'[s] # rtask[s]
                => \A u \in Sessions \ {s} :
                    HasHome(u)
                        => /\ home'[u] = home[u]
                           /\ heap'[home[u].access_headers]
                                = heap[home[u].access_headers]]_vars

\* C22's case: both logins have returned a Home, every refresh call of the
\* run on the first has succeeded and left it a new access_token with its
\* header, and the second still holds the tokens and the header of its login.
C22_Witness ==
    /\ HasHome(1) /\ HasHome(2)
    /\ \A t \in 1..MaxRefresh : rtask[1][t].pc = "done"
    /\ home[1].access_token = "A2" /\ home[1].refresh_token = "R2"
    /\ HeadersOf(1)["Authorization"] = Bearer("A2")
    /\ home[2].access_token = "A1" /\ home[2].refresh_token = "R1"
    /\ HeadersOf(2)["Authorization"] = Bearer("A1")

====
